---- MODULE Spec2Model ----
(***************************************************************************)
(* Model of the trajecta analytics engine (server/analytics.ts, kept here  *)
(* as src/unnamed/part_001) and of the way its functions are called.       *)
(*                                                                         *)
(* Representation                                                          *)
(*  - An instant (a Date) is a number of ticks since the epoch; one day is *)
(*    TicksPerDay ticks (the code's 1000*60*60*24 milliseconds).           *)
(*  - A JavaScript number is a record [kind, value]. A finite number holds *)
(*    its value in hundredths (150 is 15000, 0.2 is 20), which is exact    *)
(*    for every value the engine returns: each one is either an integer or *)
(*    the result of toFixed(2). Non-finite results are NaN and Infinity.   *)
(*  - Arithmetic on reals (mean, variance, square root, weighted sums) is  *)
(*    carried out exactly on integers: every comparison the code makes on  *)
(*    a real is rewritten as the equivalent comparison on integers, which  *)
(*    is stated next to each definition. Floating-point rounding error is  *)
(*    not modelled: where the exact value lies on a rounding or comparison *)
(*    boundary (a score of exactly 62.5, stdDev exactly mean * 0.5) the    *)
(*    double the code computes may fall on either side of it.              *)
(*  - A Commit, Repository or LanguageProficiency row is a record of the   *)
(*    fields the engine reads.                                             *)
(*                                                                         *)
(* Two specifications                                                      *)
(*  - Spec: one caller invokes one engine function on arguments it holds.  *)
(*  - SpecServer: the tRPC procedures of server/routers.ts run on behalf   *)
(*    of users, several at a time, against the tables of server/db.ts. A   *)
(*    procedure is one action per `await` on a query of a table: between   *)
(*    two of them another request may run.                                 *)
(***************************************************************************)
EXTENDS Integers, Sequences, FiniteSets

(***************************************************************************)
(* Bounds of the model                                                     *)
(***************************************************************************)
TicksPerDay == 2
MaxInstant == 5
MaxCommits == 3
MaxLanguages == 3
MaxRepositories == 2
MaxCalls == 2
BurstSize == 40
BurstDays == 7
MaxRequests == 2

(***************************************************************************)
(* Program constants                                                       *)
(***************************************************************************)
DefaultTimeWindowDays == 90
\* What the caller's window argument holds when the caller passes none.
Omitted == -1
EpochWeekday == 4
DefaultCommitDays == 365
NewLanguagesWindowDays == 90
TopLanguagesN == 5

VARIABLES
  clock,           \* the system clock: what `new Date()` returns
  tz,              \* the process's offset from UTC, in ticks (Date#getDay is local)
  target,          \* the engine function the caller invokes
  repositories,    \* the caller's Repository[]
  commits,         \* the caller's Commit[]
  languages,       \* the caller's LanguageProficiency[] (an array object)
  timeWindowDays,  \* the caller's window argument
  topN,            \* the caller's topN argument
  ncalls,          \* how many times the caller has invoked target
  passed,          \* the content of `languages` when the latest call was made
  now,             \* the instant the latest call ran (what it read from the clock)
  result,          \* what the latest call returned
  previous         \* what the call before it returned

\* The server around the engine (server/routers.ts, server/db.ts).
VARIABLES
  repositoryRows,  \* table `repositories`, in order of insertion
  commitRows,      \* table `commits`
  languageRows,    \* table `languageProficiency`
  metricsRows,     \* table `userMetrics`
  insightRows,     \* table `aiInsights`
  requests,        \* the request each connection is serving, with its locals
  started          \* how many requests have been started

storeVars == <<repositoryRows, commitRows, languageRows, metricsRows,
               insightRows, requests, started>>

vars == <<clock, tz, target, repositories, commits, languages, timeWindowDays,
          topN, ncalls, passed, now, result, previous, storeVars>>

(***************************************************************************)
(* JavaScript numbers                                                      *)
(***************************************************************************)
Number(hundredths) == [kind |-> "finite", value |-> hundredths]
NaN == [kind |-> "NaN", value |-> 0]
Infinity == [kind |-> "Infinity", value |-> 0]
NoResult == [kind |-> "none", value |-> 0]

Min(a, b) == IF a <= b THEN a ELSE b
Max(a, b) == IF a >= b THEN a ELSE b

\* The integer nearest to a / b, halves going up (Math.round, and toFixed on
\* an exact quotient), for a >= 0 and b > 0.
RoundHalfUp(a, b) == (2 * a + b) \div (2 * b)

\* parseFloat((num / den).toFixed(2)): a division by zero yields Infinity
\* (NaN for 0/0), which toFixed and parseFloat pass through.
Fixed2(num, den) ==
  IF den = 0 THEN (IF num = 0 THEN NaN ELSE Infinity)
  ELSE Number(RoundHalfUp(100 * num, den))

\* Math.round(num / den) as a number.
Rounded(num, den) ==
  IF den = 0 THEN (IF num = 0 THEN NaN ELSE Infinity)
  ELSE Number(100 * RoundHalfUp(num, den))

(***************************************************************************)
(* Sequences and bucket maps                                                  *)
(***************************************************************************)
SeqsUpTo(S, n) == UNION {[1..k -> S] : k \in 0..n}

RECURSIVE SumOf(_)
\* The sum of the values of a bucket map (Object.values(..).reduce).
SumOf(f) ==
  IF DOMAIN f = {} THEN 0
  ELSE LET k == CHOOSE x \in DOMAIN f : TRUE
       IN f[k] + SumOf([x \in DOMAIN f \ {k} |-> f[x]])

RECURSIVE SumSqOf(_)
SumSqOf(f) ==
  IF DOMAIN f = {} THEN 0
  ELSE LET k == CHOOSE x \in DOMAIN f : TRUE
       IN f[k] * f[k] + SumSqOf([x \in DOMAIN f \ {k} |-> f[x]])

\* k * sum(c^2) - (sum c)^2 for the k bucket counts c. With mean = n / k:
\* variance = Spread / k^2, stdDev = sqrt(Spread) / k, stdDev / mean =
\* sqrt(Spread) / n.
Spread(buckets) ==
  Cardinality(DOMAIN buckets) * SumSqOf(buckets) - SumOf(buckets) * SumOf(buckets)

(***************************************************************************)
(* calculateConsistencyScore                                               *)
(***************************************************************************)
\* The bucket key without .split('T')[0]: the whole timestamp.
UTCDate_Instant(commit) == commit.committedAt

\* commit.committedAt.toISOString().split('T')[0]: the UTC calendar date.
UTCDate(commit) == commit.committedAt \div TicksPerDay

\* Buckets for every date from the first to the last, the dates without a
\* commit included (count 0).
commitsByDay_WithIdleDays(cs) ==
  LET days == {UTCDate(cs[i]) : i \in DOMAIN cs}
  IN [d \in UNION {a..b : a, b \in days} |->
        Cardinality({i \in DOMAIN cs : UTCDate(cs[i]) = d})]

\* Only the dates that occur get a bucket.
commitsByDay(cs) ==
  [d \in {UTCDate(cs[i]) : i \in DOMAIN cs} |->
     Cardinality({i \in DOMAIN cs : UTCDate(cs[i]) = d})]

\* Math.round(100 - cv * 50) with cv = sqrt(D) / n: the integer v with
\* v <= 100 - 50 cv + 1/2 < v + 1. For v <= 100, v <= 100 - 50 cv + 1/2 is
\* 100 sqrt(D) <= (201 - 2 v) n, that is 10000 D <= ((201 - 2 v) n)^2.
\* cv < k for k buckets, so v > 100 - 50 k.
RoundScore(k, n, D) ==
  LET AtLeast(v) == 10000 * D <= ((201 - 2 * v) * n) * ((201 - 2 * v) * n)
  IN CHOOSE v \in (100 - 50 * k)..100 :
       AtLeast(v) /\ (v = 100 \/ ~AtLeast(v + 1))

\* The score before the clamp is 100 - 50 cv <= 100, so Math.min(100, ..)
\* leaves it; it is negative exactly when cv > 2, that is D > 4 n^2, and
\* Math.max(0, ..) then makes it 0.
ConsistencyScoreOf_Unclamped(k, n, D) ==
  IF n = 0 THEN 100 ELSE RoundScore(k, n, D)

\* Lines 43-48: cv, the clamp to 0..100 and Math.round.
ConsistencyScoreOf(k, n, D) ==
  IF n = 0 THEN 100
  ELSE IF D > 4 * n * n THEN 0
  ELSE RoundScore(k, n, D)

calculateConsistencyScore(cs) ==
  IF Len(cs) = 0 THEN Number(0)
  ELSE LET dailyCounts == commitsByDay(cs)
           k == Cardinality(DOMAIN dailyCounts)
       IN IF k = 0 THEN Number(0)
          ELSE Number(100 * ConsistencyScoreOf(k, SumOf(dailyCounts), Spread(dailyCounts)))

(***************************************************************************)
(* calculateLearningVelocity                                               *)
(***************************************************************************)
\* commits.map(c => c.committedAt.getTime())
dates(cs) == {cs[i].committedAt : i \in DOMAIN cs}

minDate(cs) == CHOOSE t \in dates(cs) : \A u \in dates(cs) : t <= u
maxDate(cs) == CHOOSE t \in dates(cs) : \A u \in dates(cs) : t >= u

\* The function without its `daysDiff === 0` return.
calculateLearningVelocity_NoSpanGuard(cs) ==
  IF Len(cs) = 0 THEN Number(0)
  ELSE Fixed2(Len(cs) * TicksPerDay, maxDate(cs) - minDate(cs))

\* The function with daysDiff cut to whole days.
calculateLearningVelocity_WholeDays(cs) ==
  IF Len(cs) = 0 THEN Number(0)
  ELSE LET ticksDiff == maxDate(cs) - minDate(cs)
       IN IF ticksDiff = 0 THEN Number(100 * Len(cs))
          ELSE Fixed2(Len(cs), ticksDiff \div TicksPerDay)

\* daysDiff = (maxDate - minDate) / TicksPerDay is a fraction of days, so
\* commits.length / daysDiff = commits.length * TicksPerDay / (maxDate - minDate).
calculateLearningVelocity(cs) ==
  IF Len(cs) = 0 THEN Number(0)
  ELSE LET ticksDiff == maxDate(cs) - minDate(cs)
       IN IF ticksDiff = 0 THEN Number(100 * Len(cs))
          ELSE Fixed2(Len(cs) * TicksPerDay, ticksDiff)

(***************************************************************************)
(* calculateProjectDepth                                                   *)
(***************************************************************************)
RECURSIVE totalSize(_)
\* repositories.reduce((sum, repo) => sum + repo.size, 0)
totalSize(repos) ==
  IF repos = <<>> THEN 0 ELSE Head(repos).size + totalSize(Tail(repos))

\* sizeScore without its Math.min(100, ..).
sizeScore10r_Uncapped(repos) == totalSize(repos)

\* sizeScore * 10 * r for r repositories: sizeScore = min(100, (S / r) / 1000 * 100)
\* = min(1000 r, S) / (10 r) for the total size S.
sizeScore10r(repos) == Min(1000 * Len(repos), totalSize(repos))

\* densityScore * 10 * r: densityScore = min(100, (c / r) * 5)
\* = min(1000 r, 50 c) / (10 r) for c commits.
densityScore10r(repos, cs) == Min(1000 * Len(repos), 50 * Len(cs))

\* The function with the two weights exchanged.
calculateProjectDepth_WeightsSwapped(repos, cs) ==
  IF Len(repos) = 0 THEN Number(0)
  ELSE Rounded(6 * sizeScore10r(repos) + 4 * densityScore10r(repos, cs),
               100 * Len(repos))

\* depthScore = sizeScore * 0.4 + densityScore * 0.6
\* = (4 sizeScore10r + 6 densityScore10r) / (100 r).
calculateProjectDepth(repos, cs) ==
  IF Len(repos) = 0 THEN Number(0)
  ELSE Rounded(4 * sizeScore10r(repos) + 6 * densityScore10r(repos, cs),
               100 * Len(repos))

(***************************************************************************)
(* calculateDepthBreadthRatio                                              *)
(***************************************************************************)
\* The function with a guard that tests the repositories only.
calculateDepthBreadthRatio_RepoGuardOnly(repos, cs, langs) ==
  IF Len(repos) = 0 THEN Number(0)
  ELSE Fixed2(Len(cs), Len(repos) * Len(langs))

\* The function without the division by the breadth.
calculateDepthBreadthRatio_DepthOnly(repos, cs, langs) ==
  IF Len(repos) = 0 \/ Len(langs) = 0 THEN Number(0)
  ELSE Fixed2(Len(cs), Len(repos))

\* depth / breadth = (c / r) / l = c / (r l).
calculateDepthBreadthRatio(repos, cs, langs) ==
  IF Len(repos) = 0 \/ Len(langs) = 0 THEN Number(0)
  ELSE Fixed2(Len(cs), Len(repos) * Len(langs))

(***************************************************************************)
(* calculateSkillGrowthTrend                                               *)
(***************************************************************************)
\* cutoffDate = new Date(); cutoffDate.setDate(cutoffDate.getDate() - days):
\* the same time of day, `days` calendar days before `current` (in a zone whose
\* offset from UTC is fixed).
cutoffDate(current, days) == current - days * TicksPerDay

\* The function with a filter that leaves out a commit at the cutoff itself,
\* c.committedAt > cutoffDate.
calculateSkillGrowthTrend_ExclusiveCutoff(langs, cs, days, current) ==
  IF Len(langs) = 0 THEN Number(0)
  ELSE LET IsRecent(c) == c.committedAt > cutoffDate(current, days)
           recentCommits == SelectSeq(cs, IsRecent)
       IN IF Len(recentCommits) = 0 THEN Number(0)
          ELSE LET growth == Rounded(100 * Len(recentCommits), Len(cs))
               IN IF growth.kind = "finite" THEN Number(Min(10000, growth.value))
                  ELSE growth

\* `current` is the value `new Date()` returns when the function runs.
calculateSkillGrowthTrend(langs, cs, days, current) ==
  IF Len(langs) = 0 THEN Number(0)
  ELSE LET IsRecent(c) == c.committedAt >= cutoffDate(current, days)
           recentCommits == SelectSeq(cs, IsRecent)
       IN IF Len(recentCommits) = 0 THEN Number(0)
          ELSE LET growth == Rounded(100 * Len(recentCommits), Len(cs))
               IN IF growth.kind = "finite" THEN Number(Min(10000, growth.value))
                  ELSE growth

(***************************************************************************)
(* analyzeCommitPatterns                                                   *)
(***************************************************************************)
dayNames ==
  <<"Sunday", "Monday", "Tuesday", "Wednesday", "Thursday", "Friday", "Saturday">>

\* commit.committedAt.getDay(): the weekday (0 = Sunday) of the local date.
\* The epoch fell on a Thursday.
LocalDay(commit, offset) ==
  (EpochWeekday + ((commit.committedAt + offset) \div TicksPerDay)) % 7

\* A bucket for each of the seven weekdays, those without a commit included
\* (count 0).
commitsByDayOfWeek_AllSeven(cs, offset) ==
  [d \in 0..6 |-> Cardinality({i \in DOMAIN cs : LocalDay(cs[i], offset) = d})]

\* Only the weekdays that occur get a bucket.
commitsByDayOfWeek(cs, offset) ==
  [d \in {LocalDay(cs[i], offset) : i \in DOMAIN cs} |->
     Cardinality({i \in DOMAIN cs : LocalDay(cs[i], offset) = d})]

\* The peak that moves on a count that is not smaller (count >= maxCommits):
\* the highest weekday among those with the largest count.
peakDayOf_LastMaximum(buckets) ==
  IF DOMAIN buckets = {} THEN 0
  ELSE CHOOSE d \in DOMAIN buckets :
         /\ \A e \in DOMAIN buckets : buckets[e] <= buckets[d]
         /\ \A e \in DOMAIN buckets : buckets[e] = buckets[d] => d >= e

\* Object.entries visits integer keys in ascending order, and the peak
\* moves only on a strictly larger count: the lowest weekday among those
\* with the largest count (0 when there is none).
peakDayOf(buckets) ==
  IF DOMAIN buckets = {} THEN 0
  ELSE CHOOSE d \in DOMAIN buckets :
         /\ \A e \in DOMAIN buckets : buckets[e] <= buckets[d]
         /\ \A e \in DOMAIN buckets : buckets[e] = buckets[d] => d <= e

DefaultPatterns ==
  [averageCommitsPerDay |-> Number(0), peakDay |-> "Monday",
   burstyPattern |-> FALSE, consistentPattern |-> FALSE]

\* The function without its empty-input return. The mean of no buckets is
\* 0 / 0 = NaN, every comparison with NaN is false, and dayNames[0] is
\* "Sunday".
analyzeCommitPatterns_NoEmptyGuard(cs, offset) ==
  LET buckets == commitsByDayOfWeek(cs, offset)
      n == SumOf(buckets)
      D == Spread(buckets)
  IN [averageCommitsPerDay |-> Fixed2(Len(cs), 7),
      peakDay |-> dayNames[peakDayOf(buckets) + 1],
      burstyPattern |-> DOMAIN buckets # {} /\ 4 * D > n * n,
      consistentPattern |-> DOMAIN buckets # {} /\ 100 * D < 9 * n * n]

\* The function with an average over the weekdays that occur instead of 7.
analyzeCommitPatterns_PerObservedDay(cs, offset) ==
  IF Len(cs) = 0 THEN DefaultPatterns
  ELSE LET buckets == commitsByDayOfWeek(cs, offset)
           n == SumOf(buckets)
           D == Spread(buckets)
       IN [averageCommitsPerDay |-> Fixed2(Len(cs), Cardinality(DOMAIN buckets)),
           peakDay |-> dayNames[peakDayOf(buckets) + 1],
           burstyPattern |-> 4 * D > n * n,
           consistentPattern |-> 100 * D < 9 * n * n]

\* The function with the second comparison turned around,
\* stdDev > mean * 0.3.
analyzeCommitPatterns_ConsistentReversed(cs, offset) ==
  IF Len(cs) = 0 THEN DefaultPatterns
  ELSE LET buckets == commitsByDayOfWeek(cs, offset)
           n == SumOf(buckets)
           D == Spread(buckets)
       IN [averageCommitsPerDay |-> Fixed2(Len(cs), 7),
           peakDay |-> dayNames[peakDayOf(buckets) + 1],
           burstyPattern |-> 4 * D > n * n,
           consistentPattern |-> 100 * D > 9 * n * n]

\* stdDev > mean * 0.5 is sqrt(D) / k > n / (2 k), that is 4 D > n^2;
\* stdDev < mean * 0.3 is sqrt(D) / k < 3 n / (10 k), that is 100 D < 9 n^2.
analyzeCommitPatterns(cs, offset) ==
  IF Len(cs) = 0 THEN DefaultPatterns
  ELSE LET buckets == commitsByDayOfWeek(cs, offset)
           n == SumOf(buckets)
           D == Spread(buckets)
       IN [averageCommitsPerDay |-> Fixed2(Len(cs), 7),
           peakDay |-> dayNames[peakDayOf(buckets) + 1],
           burstyPattern |-> 4 * D > n * n,
           consistentPattern |-> 100 * D < 9 * n * n]

(***************************************************************************)
(* identifyNewLanguages                                                    *)
(***************************************************************************)
RECURSIVE MapLanguage(_)
\* .map(lang => lang.language)
MapLanguage(langs) ==
  IF langs = <<>> THEN <<>>
  ELSE <<Head(langs).language>> \o MapLanguage(Tail(langs))

\* timeWindowDays: number = 90: the default stands in for an argument that
\* is not passed.
windowOrDefault(days) == IF days = Omitted THEN DefaultTimeWindowDays ELSE days

\* The filter followed by a removal of the names that occurred before.
identifyNewLanguages_Distinct(langs, days, current) ==
  LET IsNew(lang) == lang.firstSeenAt >= cutoffDate(current, days)
      names == MapLanguage(SelectSeq(langs, IsNew))
      First[i \in 0..Len(names)] ==
        IF i = 0 THEN <<>>
        ELSE IF \E j \in 1..(i - 1) : names[j] = names[i] THEN First[i - 1]
        ELSE Append(First[i - 1], names[i])
  IN First[Len(names)]

\* `current` is the value `new Date()` returns when the function runs.
identifyNewLanguages(langs, days, current) ==
  LET IsNew(lang) == lang.firstSeenAt >= cutoffDate(current, days)
  IN MapLanguage(SelectSeq(langs, IsNew))

(***************************************************************************)
(* identifyGrowthLanguages                                                 *)
(***************************************************************************)
RECURSIVE InsertAscending(_, _)
InsertAscending(sorted, x) ==
  IF sorted = <<>> THEN <<x>>
  ELSE IF Head(sorted).commitCount <= x.commitCount
       THEN <<Head(sorted)>> \o InsertAscending(Tail(sorted), x)
       ELSE <<x>> \o sorted

RECURSIVE SortAscending(_)
\* The array sorted with the comparator reversed, (a, b) => a.commitCount - b.commitCount.
SortAscending(langs) ==
  IF langs = <<>> THEN <<>>
  ELSE InsertAscending(SortAscending(SubSeq(langs, 1, Len(langs) - 1)),
                       langs[Len(langs)])

RECURSIVE InsertDescending(_, _)
\* x, which came after every element of `sorted` in the array, goes behind
\* the elements whose count is not smaller.
InsertDescending(sorted, x) ==
  IF sorted = <<>> THEN <<x>>
  ELSE IF Head(sorted).commitCount >= x.commitCount
       THEN <<Head(sorted)>> \o InsertDescending(Tail(sorted), x)
       ELSE <<x>> \o sorted

RECURSIVE SortDescending(_)
\* What languages.sort((a, b) => b.commitCount - a.commitCount) leaves in the
\* array: Array.prototype.sort is stable and sorts the array itself.
SortDescending(langs) ==
  IF langs = <<>> THEN <<>>
  ELSE InsertDescending(SortDescending(SubSeq(langs, 1, Len(langs) - 1)),
                        langs[Len(langs)])

\* Array.prototype.slice(0, end): a negative end counts from the end.
Slice0(s, end) ==
  LET stop == IF end < 0 THEN Max(Len(s) + end, 0) ELSE Min(end, Len(s))
  IN SubSeq(s, 1, stop)

\* The tiers with thresholds that include 100 and 50.
growthOf_Inclusive(commitCount) ==
  IF commitCount >= 100 THEN "High"
  ELSE IF commitCount >= 50 THEN "Medium"
  ELSE "Low"

\* commitCount > 100 ? "High" : commitCount > 50 ? "Medium" : "Low"
growthOf(commitCount) ==
  IF commitCount > 100 THEN "High"
  ELSE IF commitCount > 50 THEN "Medium"
  ELSE "Low"

RECURSIVE MapGrowth(_)
MapGrowth(langs) ==
  IF langs = <<>> THEN <<>>
  ELSE <<[language |-> Head(langs).language,
          commitCount |-> Head(langs).commitCount,
          growth |-> growthOf(Head(langs).commitCount)]>>
       \o MapGrowth(Tail(langs))

identifyGrowthLanguages(langs, n) == MapGrowth(Slice0(SortDescending(langs), n))

(***************************************************************************)
(* calculateMetrics                                                        *)
(***************************************************************************)
\* The composition with the trend taken over a year instead of the default
\* window.
calculateMetrics_YearWindow(repos, cs, langs, current) ==
  [consistencyScore |-> calculateConsistencyScore(cs),
   skillGrowthTrend |-> calculateSkillGrowthTrend(langs, cs, 365, current),
   learningVelocity |-> calculateLearningVelocity(cs),
   projectDepth |-> calculateProjectDepth(repos, cs),
   depthBreadthRatio |-> calculateDepthBreadthRatio(repos, cs, langs),
   totalCommits |-> Len(cs),
   totalRepositories |-> Len(repos),
   uniqueLanguages |-> Len(langs)]

\* calculateSkillGrowthTrend is called without a window: the default applies.
calculateMetrics(repos, cs, langs, current) ==
  [consistencyScore |-> calculateConsistencyScore(cs),
   skillGrowthTrend |-> calculateSkillGrowthTrend(langs, cs, DefaultTimeWindowDays, current),
   learningVelocity |-> calculateLearningVelocity(cs),
   projectDepth |-> calculateProjectDepth(repos, cs),
   depthBreadthRatio |-> calculateDepthBreadthRatio(repos, cs, langs),
   totalCommits |-> Len(cs),
   totalRepositories |-> Len(repos),
   uniqueLanguages |-> Len(langs)]

(***************************************************************************)
(* The inputs a caller may hold                                            *)
(***************************************************************************)
Instants == 0..MaxInstant

\* The clock may stand before or after the instants of the records.
ClockStart == MaxInstant - 1
MaxClock == MaxInstant + 1

\* Instants around the default window of a call made at ClockStart: the
\* cutoff itself, and one day before it.
WindowEdge == ClockStart - DefaultTimeWindowDays * TicksPerDay
LongAgo == WindowEdge - TicksPerDay

TzOffsets == {0, 1}
Windows == {0, 1, DefaultTimeWindowDays}
TopNs == {-1, 0, 1, 2, 5}

Commit(t) == [committedAt |-> t]

\* BurstSize commits at one instant, then one commit on each of the
\* following BurstDays - 1 days.
BurstCommits ==
  [i \in 1..(BurstSize + BurstDays - 1) |->
     Commit(IF i <= BurstSize THEN 0 ELSE (i - BurstSize) * TicksPerDay)]

CommitLists == SeqsUpTo({Commit(t) : t \in Instants}, MaxCommits) \cup {BurstCommits}

\* Ten commits at one instant.
TenAtOnce == [i \in 1..10 |-> Commit(0)]

\* Two commits ten days apart, the earlier one first.
TenDaysApart == <<Commit(0), Commit(10 * TicksPerDay)>>

\* Commit lists of given lengths, for the functions that only count commits.
CommitCountLists ==
  {[i \in 1..n |-> Commit(0)] : n \in {0, 1, 3, 20 * MaxRepositories, 25 * MaxRepositories}}

\* Sizes in KB below, just below and above the 1000 KB at which sizeScore is 100.
RepositoryLists == SeqsUpTo([size : {0, 500, 990, 2500}], MaxRepositories)

Language(name, count, t) == [language |-> name, commitCount |-> count, firstSeenAt |-> t]

\* Entries that differ in name and commit count, for the ranking; two pairs
\* of them share a commit count and two pairs share a name.
RankedLanguageLists ==
  SeqsUpTo({Language("TypeScript", 150, 0), Language("TypeScript", 75, 0),
            Language("TypeScript", 30, 0), Language("Python", 75, 0),
            Language("JavaScript", 75, 0), Language("JavaScript", 30, 0)},
           MaxLanguages)

\* Entries with commit counts at and next to the two thresholds of the tiers.
ThresholdLanguageLists ==
  SeqsUpTo({Language("Go", count, 0) : count \in {50, 51, 100, 101}}, MaxLanguages - 1)

\* Entries that differ in name and first sighting, for the window.
DatedLanguageLists ==
  SeqsUpTo({Language(name, 5, t) : name \in {"Rust", "TypeScript"}, t \in Instants},
           MaxLanguages - 1)

\* Entries first seen a day before the default cutoff of a call made at
\* ClockStart, and at that cutoff.
OldLanguageLists ==
  {<<Language("Rust", 5, LongAgo), Language("TypeScript", 5, WindowEdge)>>,
   <<Language("TypeScript", 5, WindowEdge), Language("Rust", 5, LongAgo)>>}

\* No language, one, and two different ones.
DistinctLanguageLists ==
  {<<>>, <<Language("TypeScript", 50, 0)>>,
   <<Language("TypeScript", 50, 0), Language("Rust", 5, MaxInstant)>>}

\* The last list holds two rows of one language, as the table may after two
\* syncs of one user that ran at the same time.
FewLanguageLists ==
  DistinctLanguageLists \cup
    {<<Language("TypeScript", 50, 0), Language("TypeScript", 50, 0)>>}

EngineFunctions ==
  {"calculateConsistencyScore", "calculateLearningVelocity", "calculateProjectDepth",
   "calculateDepthBreadthRatio", "calculateSkillGrowthTrend", "analyzeCommitPatterns",
   "identifyNewLanguages", "identifyGrowthLanguages", "calculateMetrics"}

\* The arguments a caller of function f holds; an argument f does not take
\* is empty (0 for a number).
ArgumentsOf(f) ==
  LET Args(R, C, L, W, N, Z) ==
        [repositories : R, commits : C, languages : L, timeWindowDays : W,
         topN : N, tz : Z]
  IN CASE f = "calculateConsistencyScore" ->
            Args({<<>>}, CommitLists, {<<>>}, {0}, {0}, {0})
       [] f = "calculateLearningVelocity" ->
            Args({<<>>}, CommitLists \cup {TenDaysApart}, {<<>>}, {0}, {0}, {0})
       [] f = "calculateProjectDepth" ->
            Args(RepositoryLists, CommitCountLists, {<<>>}, {0}, {0}, {0})
       [] f = "calculateDepthBreadthRatio" ->
            Args(RepositoryLists, CommitCountLists, FewLanguageLists, {0}, {0}, {0})
       [] f = "calculateSkillGrowthTrend" ->
            Args({<<>>}, CommitLists \ {BurstCommits},
                 {<<Language("TypeScript", 50, 0)>>}, Windows, {0}, {0})
            \cup Args({<<>>}, {<<>>, <<Commit(MaxInstant)>>}, {<<>>}, Windows, {0}, {0})
       [] f = "analyzeCommitPatterns" ->
            Args({<<>>}, CommitLists \cup {TenAtOnce}, {<<>>}, {0}, {0}, TzOffsets)
       [] f = "identifyNewLanguages" ->
            Args({<<>>}, {<<>>}, DatedLanguageLists \cup OldLanguageLists,
                 Windows, {0}, {0})
            \cup Args({<<>>}, {<<>>}, OldLanguageLists \cup {<<>>}, {Omitted}, {0}, {0})
       [] f = "identifyGrowthLanguages" ->
            Args({<<>>}, {<<>>}, RankedLanguageLists \cup ThresholdLanguageLists,
                 {0}, TopNs, {0})
       [] f = "calculateMetrics" ->
            Args(SeqsUpTo([size : {500}], MaxRepositories),
                 SeqsUpTo({Commit(t) : t \in {0, TicksPerDay, MaxInstant, WindowEdge, LongAgo}},
                          MaxCommits - 1),
                 DistinctLanguageLists, {0}, {0}, {0})

(***************************************************************************)
(* The server before any request                                           *)
(***************************************************************************)
Users == {1, 2}
Connections == {1, 2}

NoRow == [id |-> 0]

\* A connection that serves no request. The fields are the locals of the
\* procedures: `stamp` is the latest reading of the clock (new Date()) that
\* the request has put into a query or an engine call, `i` and `j` are the
\* positions of its loops.
IdleRequest ==
  [procedure |-> "none", user |-> 0, pc |-> "idle", i |-> 0, j |-> 0,
   existing |-> FALSE, stamp |-> 0, fetched |-> <<>>, matchingRepo |-> NoRow,
   repositories |-> <<>>, commits |-> <<>>, languages |-> <<>>,
   metrics |-> NoRow, asked |-> <<>>, llm |-> "", result |-> NoResult,
   error |-> ""]

StoreInit ==
  /\ repositoryRows = <<>>
  /\ commitRows = <<>>
  /\ languageRows = <<>>
  /\ metricsRows = <<>>
  /\ insightRows = <<>>
  /\ requests = [r \in Connections |-> IdleRequest]
  /\ started = 0

(***************************************************************************)
(* The caller                                                              *)
(***************************************************************************)
Init ==
  /\ StoreInit
  /\ clock = ClockStart
  /\ target \in EngineFunctions
  /\ \E a \in ArgumentsOf(target) :
       /\ repositories = a.repositories
       /\ commits = a.commits
       /\ languages = a.languages
       /\ timeWindowDays = a.timeWindowDays
       /\ topN = a.topN
       /\ tz = a.tz
  /\ ncalls = 0
  /\ passed = <<>>
  /\ now = clock
  /\ result = NoResult
  /\ previous = NoResult

\* Time passes (not between a procedure's last statement and its return).
Tick ==
  /\ clock < MaxClock
  /\ \A q \in Connections : requests[q].pc # "done"
  /\ clock' = clock + 1
  /\ UNCHANGED <<tz, target, repositories, commits, languages, timeWindowDays,
                 topN, ncalls, passed, now, result, previous>>
  /\ UNCHANGED storeVars

\* What every call does around the function it runs: the function is given
\* the caller's collections, and its return value reaches the caller.
Returns(f, value) ==
  /\ target = f
  /\ ncalls < MaxCalls
  /\ ncalls' = ncalls + 1
  /\ passed' = languages
  /\ now' = clock
  /\ previous' = result
  /\ result' = value
  /\ UNCHANGED <<clock, tz, target, repositories, commits, timeWindowDays, topN>>
  /\ UNCHANGED storeVars

CallCalculateConsistencyScore ==
  /\ Returns("calculateConsistencyScore", calculateConsistencyScore(commits))
  /\ UNCHANGED languages

CallCalculateLearningVelocity ==
  /\ Returns("calculateLearningVelocity", calculateLearningVelocity(commits))
  /\ UNCHANGED languages

CallCalculateProjectDepth ==
  /\ Returns("calculateProjectDepth", calculateProjectDepth(repositories, commits))
  /\ UNCHANGED languages

CallCalculateDepthBreadthRatio ==
  /\ Returns("calculateDepthBreadthRatio",
             calculateDepthBreadthRatio(repositories, commits, languages))
  /\ UNCHANGED languages

\* The function reads the system clock.
CallCalculateSkillGrowthTrend ==
  /\ Returns("calculateSkillGrowthTrend",
             calculateSkillGrowthTrend(languages, commits, timeWindowDays, clock))
  /\ UNCHANGED languages

CallAnalyzeCommitPatterns ==
  /\ Returns("analyzeCommitPatterns", analyzeCommitPatterns(commits, tz))
  /\ UNCHANGED languages

\* The function reads the system clock.
CallIdentifyNewLanguages ==
  /\ Returns("identifyNewLanguages",
             identifyNewLanguages(languages, windowOrDefault(timeWindowDays), clock))
  /\ UNCHANGED languages

\* languages.sort(..) sorts the caller's array itself.
CallIdentifyGrowthLanguages ==
  /\ Returns("identifyGrowthLanguages", identifyGrowthLanguages(languages, topN))
  /\ languages' = SortDescending(languages)

\* The function reads the system clock, through calculateSkillGrowthTrend.
CallCalculateMetrics ==
  /\ Returns("calculateMetrics",
             calculateMetrics(repositories, commits, languages, clock))
  /\ UNCHANGED languages

Next ==
  \/ Tick
  \/ CallCalculateConsistencyScore
  \/ CallCalculateLearningVelocity
  \/ CallCalculateProjectDepth
  \/ CallCalculateDepthBreadthRatio
  \/ CallCalculateSkillGrowthTrend
  \/ CallAnalyzeCommitPatterns
  \/ CallIdentifyNewLanguages
  \/ CallIdentifyGrowthLanguages
  \/ CallCalculateMetrics

Spec == Init /\ [][Next]_vars

(***************************************************************************)
(* GitHub, as the client of server/routers.ts sees it                      *)
(***************************************************************************)
\* The server is observed from ServerStart, one tick before the clock of the
\* model stops. YearEdge is the cutoff of getUserCommits for a request made
\* at ServerStart.
ServerStart == MaxClock - 1
YearEdge == ServerStart - DefaultCommitDays * TicksPerDay

\* GET /user/repos for the token of user u. A repository's `name` is its
\* short name, a single path segment (`full_name` is owner/name); a name is
\* kept as its sequence of segments.
GitHubRepositories(u) ==
  IF u = 1
  THEN <<[id |-> "101", name |-> <<"octo">>, full_name |-> <<"alice", "octo">>,
          language |-> "TypeScript", size |-> 500],
         [id |-> "102", name |-> <<"hello">>, full_name |-> <<"alice", "hello">>,
          language |-> "TypeScript", size |-> 990]>>
  ELSE <<[id |-> "202", name |-> <<"octo">>, full_name |-> <<"bob", "octo">>,
          language |-> "TypeScript", size |-> 2500]>>

\* GET /repos/{owner}/{repo}/commits, newest first. The account "octo" has a
\* repository called "undefined"; no other path of the model exists. One of
\* its commits is dated at the edge of a year before ClockStart, the other
\* carries an author date that the server's clock has not reached.
GitHubCommitsAt(owner, repo) ==
  IF owner = "octo" /\ repo = "undefined"
  THEN <<[sha |-> "b", message |-> "fix", date |-> MaxClock + 1],
         [sha |-> "a", message |-> "init", date |-> YearEdge]>>
  ELSE <<>>

RECURSIVE LanguageEntries(_, _)
\* fetchGitHubUserData: languageMap gets one entry per language, in the order
\* of first appearance, counting the repositories that name it.
LanguageEntries(repos, seen) ==
  IF repos = <<>> THEN <<>>
  ELSE LET lang == Head(repos).language
           count == Cardinality({k \in DOMAIN repos : repos[k].language = lang})
       IN IF lang = "" \/ lang \in seen
          THEN LanguageEntries(Tail(repos), seen)
          ELSE <<[language |-> lang, repositoryCount |-> count]>>
               \o LanguageEntries(Tail(repos), seen \cup {lang})

\* repositories.map(repo => ({ githubRepoId: repo.id.toString(),
\* name: repo.name, .. })): the short name is kept, full_name is not.
fetchGitHubUserData(u) ==
  [repositories |->
     [k \in DOMAIN GitHubRepositories(u) |->
        [githubRepoId |-> GitHubRepositories(u)[k].id,
         name |-> GitHubRepositories(u)[k].name,
         language |-> GitHubRepositories(u)[k].language,
         size |-> GitHubRepositories(u)[k].size]],
   languages |-> LanguageEntries(GitHubRepositories(u), {})]

\* const [owner, repoName] = repo.name.split("/"): the segments of the name;
\* a missing second segment is undefined, which the template literal of
\* getRepositoryCommits prints as "undefined". `owner || username || ""`.
CommitsPath(name, githubUsername) ==
  [owner |-> IF Len(name) >= 1 /\ name[1] # "" THEN name[1] ELSE githubUsername,
   repo |-> IF Len(name) >= 2 THEN name[2] ELSE "undefined"]

githubUsername(u) == IF u = 1 THEN "alice" ELSE "bob"

(***************************************************************************)
(* The tables (drizzle/schema.ts) and the queries of server/db.ts          *)
(***************************************************************************)
\* The unique keys of each table besides its auto-increment primary key id:
\* only userMetrics.userId is declared unique.
UniqueKeys ==
  [repositories |-> {}, commits |-> {}, languageProficiency |-> {},
   userMetrics |-> {{"userId"}}, aiInsights |-> {}]

Conflicts(row, new, keys) == \E key \in keys : \A f \in key : row[f] = new[f]

Merge(row, set) == [f \in DOMAIN row |-> IF f \in DOMAIN set THEN set[f] ELSE row[f]]

\* db.insert(table).values(new): the row gets the next id.
Insert(rows, new) == Append(rows, Merge(new, [id |-> Len(rows) + 1]))

\* db.insert(table).values(new).onDuplicateKeyUpdate({ set }): the columns of
\* `set` are written to the row that holds new's value of a unique key;
\* where there is none, new is inserted.
InsertOnDuplicateKeyUpdate(rows, new, keys, set) ==
  IF \E k \in DOMAIN rows : Conflicts(rows[k], new, keys)
  THEN [k \in DOMAIN rows |->
          IF Conflicts(rows[k], new, keys) THEN Merge(rows[k], set) ELSE rows[k]]
  ELSE Insert(rows, new)

getUserRepositories(rows, userId) ==
  LET Mine(row) == row.userId = userId
  IN SelectSeq(rows, Mine)

RECURSIVE InsertByCommittedAt(_, _)
InsertByCommittedAt(sorted, x) ==
  IF sorted = <<>> THEN <<x>>
  ELSE IF Head(sorted).committedAt >= x.committedAt
       THEN <<Head(sorted)>> \o InsertByCommittedAt(Tail(sorted), x)
       ELSE <<x>> \o sorted

RECURSIVE OrderByCommittedAtDesc(_)
\* ORDER BY committedAt DESC; rows of equal committedAt stay in table order.
OrderByCommittedAtDesc(rows) ==
  IF rows = <<>> THEN <<>>
  ELSE InsertByCommittedAt(OrderByCommittedAtDesc(SubSeq(rows, 1, Len(rows) - 1)),
                           rows[Len(rows)])

\* getUserCommits(userId) with its default of 365 days; `current` is the
\* clock reading the cutoff is computed from.
getUserCommits(rows, userId, current) ==
  LET Wanted(row) == /\ row.userId = userId
                     /\ row.committedAt >= cutoffDate(current, DefaultCommitDays)
  IN OrderByCommittedAtDesc(SelectSeq(rows, Wanted))

\* ORDER BY commitCount DESC; rows of equal count stay in table order.
getUserLanguages(rows, userId) ==
  LET Mine(row) == row.userId = userId
  IN SortDescending(SelectSeq(rows, Mine))

getUserMetrics(rows, userId) ==
  IF \E k \in DOMAIN rows : rows[k].userId = userId
  THEN rows[CHOOSE k \in DOMAIN rows :
              /\ rows[k].userId = userId
              /\ \A m \in DOMAIN rows : rows[m].userId = userId => k <= m]
  ELSE NoRow

\* The SELECT .. LIMIT 1 of upsertLanguageProficiency: is there a row?
languageExists(rows, userId, language) ==
  \E k \in DOMAIN rows : rows[k].userId = userId /\ rows[k].language = language

\* The branch of upsertLanguageProficiency taken after the SELECT found a
\* row (existing) or none: an UPDATE of every row of the pair, or an INSERT.
writeLanguageProficiency(rows, existing, userId, language, data) ==
  IF existing
  THEN [k \in DOMAIN rows |->
          IF rows[k].userId = userId /\ rows[k].language = language
          THEN Merge(rows[k], [commitCount |-> data.commitCount,
                               repositoryCount |-> data.repositoryCount,
                               lastSeenAt |-> data.lastSeenAt])
          ELSE rows[k]]
  ELSE Insert(rows, [id |-> 0, userId |-> userId, language |-> language,
                     commitCount |-> data.commitCount,
                     repositoryCount |-> data.repositoryCount,
                     firstSeenAt |-> data.firstSeenAt,
                     lastSeenAt |-> data.lastSeenAt])

\* The values upsertRepositories and upsertCommits insert.
RepositoryRow(userId, repo) ==
  [id |-> 0, userId |-> userId, githubRepoId |-> repo.githubRepoId,
   name |-> repo.name, language |-> repo.language, size |-> repo.size]

CommitRow(userId, repositoryId, c) ==
  [id |-> 0, userId |-> userId, repositoryId |-> repositoryId,
   commitHash |-> c.sha, message |-> c.message, committedAt |-> c.date]

upsertRepository(rows, userId, repo) ==
  InsertOnDuplicateKeyUpdate(rows, RepositoryRow(userId, repo),
                             UniqueKeys.repositories, [size |-> repo.size])

upsertCommit(rows, userId, repositoryId, c) ==
  InsertOnDuplicateKeyUpdate(rows, CommitRow(userId, repositoryId, c),
                             UniqueKeys.commits, [message |-> c.message])

\* The argument github.sync gives upsertLanguageProficiency for an entry of
\* githubData.languages: commitCount is given the repositoryCount, and both
\* dates are new Date().
LanguageData(lang, current) ==
  [commitCount |-> lang.repositoryCount, repositoryCount |-> lang.repositoryCount,
   firstSeenAt |-> current, lastSeenAt |-> current]

(***************************************************************************)
(* What one github.sync leaves when no other request runs beside it        *)
(***************************************************************************)
RECURSIVE upsertRepositories(_, _, _)
upsertRepositories(rows, userId, repos) ==
  IF repos = <<>> THEN rows
  ELSE upsertRepositories(upsertRepository(rows, userId, Head(repos)), userId,
                          Tail(repos))

RECURSIVE upsertLanguages(_, _, _, _)
upsertLanguages(rows, userId, langs, current) ==
  IF langs = <<>> THEN rows
  ELSE upsertLanguages(
         writeLanguageProficiency(rows,
                                  languageExists(rows, userId, Head(langs).language),
                                  userId, Head(langs).language,
                                  LanguageData(Head(langs), current)),
         userId, Tail(langs), current)

RECURSIVE upsertCommits(_, _, _, _)
upsertCommits(rows, userId, repositoryId, cs) ==
  IF cs = <<>> THEN rows
  ELSE upsertCommits(upsertCommit(rows, userId, repositoryId, Head(cs)), userId,
                     repositoryId, Tail(cs))

\* The database a server process finds when it starts: empty, or as a sync
\* of user SeedUser left it one tick before ServerStart, every commit of
\* the one repository fetched.
\* A number written as a string to a column decimal(precision, 2): the
\* results of the engine have at most two decimals, so a value the column
\* has room for is stored as it is; a value beyond the precision and a
\* string that is no number ("NaN", "Infinity") are rejected.
FitsDecimal(x, precision) ==
  /\ x.kind = "finite"
  /\ x.value >= 0
  /\ x.value <=
       (IF precision = 5 THEN 99999 ELSE IF precision = 8 THEN 99999999 ELSE 0)

\* The columns of userMetrics take the snapshot.
Storable(metrics) ==
  /\ FitsDecimal(metrics.consistencyScore, 5)
  /\ FitsDecimal(metrics.skillGrowthTrend, 5)
  /\ FitsDecimal(metrics.learningVelocity, 8)
  /\ FitsDecimal(metrics.projectDepth, 5)
  /\ FitsDecimal(metrics.depthBreadthRatio, 5)

\* The table with a plain INSERT in place of the upsert.
upsertUserMetrics_InsertOnly(rows, userId, metrics, current) ==
  Insert(rows, [id |-> 0, userId |-> userId, metrics |-> metrics,
                lastCalculatedAt |-> current])

\* upsertUserMetrics: INSERT .. ON DUPLICATE KEY UPDATE on the unique userId;
\* both branches write the snapshot and lastCalculatedAt: new Date().
upsertUserMetrics(rows, userId, metrics, current) ==
  InsertOnDuplicateKeyUpdate(
    rows,
    [id |-> 0, userId |-> userId, metrics |-> metrics, lastCalculatedAt |-> current],
    UniqueKeys.userMetrics,
    [metrics |-> metrics, lastCalculatedAt |-> current])

SeedUser == 2
SeedTime == ServerStart - 1
SeedRepositories ==
  upsertRepositories(<<>>, SeedUser, fetchGitHubUserData(SeedUser).repositories)
SeedLanguages ==
  upsertLanguages(<<>>, SeedUser, fetchGitHubUserData(SeedUser).languages, SeedTime)
SeedCommits ==
  LET repo == fetchGitHubUserData(SeedUser).repositories[1]
      path == CommitsPath(repo.name, githubUsername(SeedUser))
  IN upsertCommits(<<>>, SeedUser, SeedRepositories[1].id,
                   GitHubCommitsAt(path.owner, path.repo))

\* The row an analytics.calculate of SeedUser left before the sync, when
\* the tables held nothing of the user.
SeedMetrics ==
  upsertUserMetrics(<<>>, SeedUser, calculateMetrics(<<>>, <<>>, <<>>, SeedTime), SeedTime)

(***************************************************************************)
(* The procedures of server/routers.ts                                     *)
(***************************************************************************)
Procedures ==
  {"github.sync", "analytics.calculate", "analytics.commitPatterns",
   "analytics.newLanguages", "analytics.topLanguages", "insights.generate"}

\* The first query a procedure waits for. (github.sync first reads the user
\* row and GitHub, which no request of the model changes.)
FirstStep(p) ==
  CASE p = "github.sync" -> "upsertRepositories"
    [] p = "analytics.calculate" -> "getUserRepositories"
    [] p = "analytics.commitPatterns" -> "getUserCommits"
    [] p = "analytics.newLanguages" -> "getUserLanguages"
    [] p = "analytics.topLanguages" -> "getUserLanguages"
    [] p = "insights.generate" -> "getUserMetrics"

callerVars == <<tz, target, repositories, commits, languages, timeWindowDays,
                topN, ncalls, passed, now, result, previous>>

\* A server process starts, on an empty or a seeded database.
InitServer ==
  /\ \E seeded \in BOOLEAN :
       /\ repositoryRows = IF seeded THEN SeedRepositories ELSE <<>>
       /\ languageRows = IF seeded THEN SeedLanguages ELSE <<>>
       /\ commitRows = IF seeded THEN SeedCommits ELSE <<>>
       /\ metricsRows = IF seeded THEN SeedMetrics ELSE <<>>
  /\ insightRows = <<>>
  /\ requests = [r \in Connections |-> IdleRequest]
  /\ started = 0
  /\ clock = ServerStart
  /\ tz = 0
  /\ target = "none"
  /\ repositories = <<>>
  /\ commits = <<>>
  /\ languages = <<>>
  /\ timeWindowDays = 0
  /\ topN = 0
  /\ ncalls = 0
  /\ passed = <<>>
  /\ now = clock
  /\ result = NoResult
  /\ previous = NoResult

\* The step as it would be if the three arrays were variables of the module
\* instead of locals of the handler: what one request assigns, every
\* request holds.
Step_SharedArrays(r, p, pc, next) ==
  /\ \A q \in Connections : requests[q].pc # "done"
  /\ requests[r].procedure = p
  /\ requests[r].pc = pc
  /\ requests' = [q \in Connections |->
                    IF q = r THEN next
                    ELSE [requests[q] EXCEPT !.repositories = next.repositories,
                                             !.commits = next.commits,
                                             !.languages = next.languages]]
  /\ UNCHANGED <<clock, callerVars, started>>

\* Connection r takes its next step in procedure p, from position pc: the
\* locals of the handler are its own.
Step(r, p, pc, next) ==
  /\ \A q \in Connections : requests[q].pc # "done"
  /\ requests[r].procedure = p
  /\ requests[r].pc = pc
  /\ requests' = [requests EXCEPT ![r] = next]
  /\ UNCHANGED <<clock, callerVars, started>>

Free(r) == requests[r].pc = "idle"

\* A request arrives at the first free connection: the procedure runs up to
\* its first query. getUserCommits computes its cutoff from new Date() before
\* it sends its query.
Start(r) ==
  /\ \A q \in Connections : requests[q].pc # "done"
  /\ Free(r)
  /\ \A q \in Connections : q < r => ~Free(q)
  /\ started < MaxRequests
  /\ \E p \in Procedures, u \in Users :
       requests' = [requests EXCEPT ![r] =
                      [IdleRequest EXCEPT !.procedure = p, !.user = u,
                                          !.pc = FirstStep(p),
                                          !.i = IF p = "github.sync" THEN 1 ELSE 0,
                                          !.stamp = IF p = "analytics.commitPatterns"
                                                    THEN clock ELSE 0]]
  /\ started' = started + 1
  /\ UNCHANGED <<clock, callerVars, repositoryRows, commitRows, languageRows,
                 metricsRows, insightRows>>

\* A procedure that has reached its end returns in the same turn of the
\* event loop: the response (the result or the error) is sent before any
\* other request runs, and the locals are gone.
Respond(r) ==
  /\ requests[r].pc = "done"
  /\ requests' = [requests EXCEPT ![r] = IdleRequest]
  /\ UNCHANGED <<clock, callerVars, started, repositoryRows, commitRows,
                 languageRows, metricsRows, insightRows>>

(***************************************************************************)
(* github.sync                                                             *)
(***************************************************************************)
\* The commit loop reaches repository k, or the procedure returns.
SyncToCommits(req, k) ==
  IF k <= Len(fetchGitHubUserData(req.user).repositories)
  THEN [req EXCEPT !.pc = "getRepositoryCommits", !.i = k, !.j = 0,
                   !.fetched = <<>>, !.matchingRepo = NoRow]
  ELSE [req EXCEPT !.pc = "done", !.i = 0, !.j = 0, !.fetched = <<>>,
                   !.matchingRepo = NoRow, !.result = [success |-> TRUE]]

\* The language loop reaches language k: the data of the call, with its two
\* new Date(), is built now; or the commit loop begins.
SyncToLanguages(req, k, current) ==
  IF k <= Len(fetchGitHubUserData(req.user).languages)
  THEN [req EXCEPT !.pc = "selectLanguage", !.i = k, !.stamp = current,
                   !.existing = FALSE]
  ELSE SyncToCommits(req, 1)

\* upsertRepositories: one INSERT .. ON DUPLICATE KEY UPDATE per repository.
SyncUpsertRepository(r) ==
  LET req == requests[r]
      repos == fetchGitHubUserData(req.user).repositories
      repo == repos[req.i]
  IN /\ Step(r, "github.sync", "upsertRepositories",
             IF req.i < Len(repos) THEN [req EXCEPT !.i = req.i + 1]
             ELSE SyncToLanguages(req, 1, clock))
     /\ repositoryRows' = upsertRepository(repositoryRows, req.user, repo)
     /\ UNCHANGED <<commitRows, languageRows, metricsRows, insightRows>>

\* upsertLanguageProficiency, first query: SELECT .. LIMIT 1.
SyncSelectLanguage(r) ==
  LET req == requests[r]
      lang == fetchGitHubUserData(req.user).languages[req.i]
  IN /\ Step(r, "github.sync", "selectLanguage",
             [req EXCEPT !.pc = "writeLanguage",
                         !.existing = languageExists(languageRows, req.user,
                                                     lang.language)])
     /\ UNCHANGED <<repositoryRows, commitRows, languageRows, metricsRows,
                    insightRows>>

\* upsertLanguageProficiency, second query: UPDATE or INSERT, as the SELECT
\* decided.
SyncWriteLanguage(r) ==
  LET req == requests[r]
      lang == fetchGitHubUserData(req.user).languages[req.i]
  IN /\ Step(r, "github.sync", "writeLanguage",
             SyncToLanguages(req, req.i + 1, clock))
     /\ languageRows' =
          writeLanguageProficiency(languageRows, req.existing, req.user,
                                   lang.language, LanguageData(lang, req.stamp))
     /\ UNCHANGED <<repositoryRows, commitRows, metricsRows, insightRows>>

\* client.getRepositoryCommits(owner, repoName) answers with what GitHub
\* holds at that path, or with [] when the request fails. With commits in
\* hand, getUserRepositories and .find(r => r.githubRepoId === ..) look for
\* the first row of the user with the repository's id. (GitHub's answer does
\* not depend on when it is given, so the two awaits are one step.)
SyncGetRepositoryCommits(r) ==
  LET req == requests[r]
      repo == fetchGitHubUserData(req.user).repositories[req.i]
      path == CommitsPath(repo.name, githubUsername(req.user))
      dbRepo == getUserRepositories(repositoryRows, req.user)
      Matching(row) == row.githubRepoId = repo.githubRepoId
      found == SelectSeq(dbRepo, Matching)
  IN /\ req.pc = "getRepositoryCommits"
     /\ \E answer \in {GitHubCommitsAt(path.owner, path.repo), <<>>} :
          Step(r, "github.sync", "getRepositoryCommits",
               [(IF Len(answer) > 0 /\ Len(found) > 0
                 THEN [req EXCEPT !.pc = "upsertCommits", !.j = 1,
                                  !.fetched = answer,
                                  !.matchingRepo = [id |-> found[1].id]]
                 ELSE SyncToCommits(req, req.i + 1))
                EXCEPT !.asked = <<repo.githubRepoId, path.owner, path.repo>>])
     /\ UNCHANGED <<repositoryRows, commitRows, languageRows, metricsRows,
                    insightRows>>

\* upsertCommits: one INSERT .. ON DUPLICATE KEY UPDATE per commit.
SyncUpsertCommit(r) ==
  LET req == requests[r]
      c == req.fetched[req.j]
  IN /\ Step(r, "github.sync", "upsertCommits",
             IF req.j < Len(req.fetched) THEN [req EXCEPT !.j = req.j + 1]
             ELSE SyncToCommits(req, req.i + 1))
     /\ commitRows' = upsertCommit(commitRows, req.user, req.matchingRepo.id, c)
     /\ UNCHANGED <<repositoryRows, languageRows, metricsRows, insightRows>>

(***************************************************************************)
(* analytics.calculate                                                     *)
(***************************************************************************)
CalculateGetUserRepositories(r) ==
  LET req == requests[r]
  IN /\ Step(r, "analytics.calculate", "getUserRepositories",
             [req EXCEPT !.pc = "getUserCommits", !.stamp = clock,
                         !.repositories = getUserRepositories(repositoryRows, req.user)])
     /\ UNCHANGED <<repositoryRows, commitRows, languageRows, metricsRows,
                    insightRows>>

CalculateGetUserCommits(r) ==
  LET req == requests[r]
  IN /\ Step(r, "analytics.calculate", "getUserCommits",
             [req EXCEPT !.pc = "getUserLanguages",
                         !.commits = getUserCommits(commitRows, req.user, req.stamp)])
     /\ UNCHANGED <<repositoryRows, commitRows, languageRows, metricsRows,
                    insightRows>>

\* The languages arrive, the engine runs on the three arrays the request
\* holds, and upsertUserMetrics is called with the snapshot.
CalculateGetUserLanguages(r) ==
  LET req == requests[r]
      langs == getUserLanguages(languageRows, req.user)
  IN /\ Step(r, "analytics.calculate", "getUserLanguages",
             [req EXCEPT !.pc = "upsertUserMetrics", !.stamp = clock,
                         !.languages = langs,
                         !.result = calculateMetrics(req.repositories, req.commits,
                                                     langs, clock)])
     /\ UNCHANGED <<repositoryRows, commitRows, languageRows, metricsRows,
                    insightRows>>

\* upsertUserMetrics: the statement writes the row, or it fails (the
\* database is not available, or a column has no room for a value); the
\* failure is caught and rethrown, and the table is as it was.
CalculateUpsertUserMetrics(r) ==
  LET req == requests[r]
  IN /\ req.pc = "upsertUserMetrics"
     /\ \E available \in BOOLEAN :
          LET written == available /\ Storable(req.result)
          IN /\ Step(r, "analytics.calculate", "upsertUserMetrics",
                     [req EXCEPT !.pc = "done",
                                 !.error = IF written THEN ""
                                           ELSE "Failed to calculate metrics"])
             /\ metricsRows' =
                  IF written
                  THEN upsertUserMetrics(metricsRows, req.user, req.result, req.stamp)
                  ELSE metricsRows
     /\ UNCHANGED <<repositoryRows, commitRows, languageRows, insightRows>>

(***************************************************************************)
(* analytics.commitPatterns, newLanguages, topLanguages                    *)
(***************************************************************************)
CommitPatterns(r) ==
  LET req == requests[r]
      cs == getUserCommits(commitRows, req.user, req.stamp)
  IN /\ Step(r, "analytics.commitPatterns", "getUserCommits",
             [req EXCEPT !.pc = "done", !.commits = cs,
                         !.result = analyzeCommitPatterns(cs, tz)])
     /\ UNCHANGED <<repositoryRows, commitRows, languageRows, metricsRows,
                    insightRows>>

NewLanguages(r) ==
  LET req == requests[r]
      langs == getUserLanguages(languageRows, req.user)
  IN /\ Step(r, "analytics.newLanguages", "getUserLanguages",
             [req EXCEPT !.pc = "done", !.stamp = clock, !.languages = langs,
                         !.result = identifyNewLanguages(langs, NewLanguagesWindowDays,
                                                         clock)])
     /\ UNCHANGED <<repositoryRows, commitRows, languageRows, metricsRows,
                    insightRows>>

\* identifyGrowthLanguages sorts the array the request holds.
TopLanguages(r) ==
  LET req == requests[r]
      langs == getUserLanguages(languageRows, req.user)
  IN /\ Step(r, "analytics.topLanguages", "getUserLanguages",
             [req EXCEPT !.pc = "done",
                         !.languages = SortDescending(langs),
                         !.result = identifyGrowthLanguages(langs, TopLanguagesN)])
     /\ UNCHANGED <<repositoryRows, commitRows, languageRows, metricsRows,
                    insightRows>>

(***************************************************************************)
(* insights.generate                                                       *)
(***************************************************************************)
GenerateGetUserMetrics(r) ==
  LET req == requests[r]
      row == getUserMetrics(metricsRows, req.user)
  IN /\ Step(r, "insights.generate", "getUserMetrics",
             [req EXCEPT !.pc = "getUserLanguages",
                         !.metrics = IF row = NoRow THEN NoRow ELSE [id |-> row.id]])
     /\ UNCHANGED <<repositoryRows, commitRows, languageRows, metricsRows,
                    insightRows>>

GenerateGetUserLanguages(r) ==
  LET req == requests[r]
  IN /\ Step(r, "insights.generate", "getUserLanguages",
             [req EXCEPT !.pc = "getUserCommits", !.stamp = clock,
                         !.languages = getUserLanguages(languageRows, req.user)])
     /\ UNCHANGED <<repositoryRows, commitRows, languageRows, metricsRows,
                    insightRows>>

\* insights.generate without its `if (!metrics) throw`: the model is asked
\* whether a metrics row was found or not.
generateOutcome_NoMetricsCheck(hasMetrics, content) ==
  IF content = "json"
  THEN [pc |-> "storeAIInsights", error |-> "", llm |-> content]
  ELSE [pc |-> "done", error |-> "Failed to generate insights", llm |-> content]

\* What follows the four reads. Without a metrics row the procedure throws
\* before invokeLLM, and the catch rethrows. With one, the model is asked
\* and answers with no content ("none"), with text that JSON.parse rejects
\* ("text") -- both throw -- or with JSON, which storeAIInsights is called
\* with. llm is the answer, "" when the model was not asked.
generateOutcome(hasMetrics, content) ==
  IF ~hasMetrics
  THEN [pc |-> "done", error |-> "Failed to generate insights", llm |-> ""]
  ELSE IF content = "json"
  THEN [pc |-> "storeAIInsights", error |-> "", llm |-> content]
  ELSE [pc |-> "done", error |-> "Failed to generate insights", llm |-> content]

\* The commits arrive, analyzeCommitPatterns runs, and the answer of the
\* model, if it is asked, comes in. (The answer touches no table, so waiting
\* for it is part of this step.)
GenerateGetUserCommits(r) ==
  LET req == requests[r]
      cs == getUserCommits(commitRows, req.user, req.stamp)
  IN /\ \E content \in {"none", "text", "json"} :
          LET outcome == generateOutcome(req.metrics # NoRow, content)
          IN Step(r, "insights.generate", "getUserCommits",
                  [req EXCEPT !.pc = outcome.pc,
                              !.error = outcome.error,
                              !.llm = outcome.llm,
                              !.stamp = IF outcome.pc = "storeAIInsights"
                                        THEN clock ELSE req.stamp,
                              !.commits = cs,
                              !.result = analyzeCommitPatterns(cs, tz)])
     /\ UNCHANGED <<repositoryRows, commitRows, languageRows, metricsRows,
                    insightRows>>

\* storeAIInsights: the INSERT writes a row with generatedAt: new Date(), or
\* it fails (the database is not available, the JSON has not the fields of
\* the row), which the catch turns into the error of the procedure.
GenerateStoreAIInsights(r) ==
  LET req == requests[r]
  IN /\ req.pc = "storeAIInsights"
     /\ \E written \in BOOLEAN :
          /\ Step(r, "insights.generate", "storeAIInsights",
                  [req EXCEPT !.pc = "done",
                              !.error = IF written THEN ""
                                        ELSE "Failed to generate insights"])
          /\ insightRows' =
               IF written
               THEN Insert(insightRows, [id |-> 0, userId |-> req.user,
                                         generatedAt |-> req.stamp])
               ELSE insightRows
     /\ UNCHANGED <<repositoryRows, commitRows, languageRows, metricsRows>>

NextServer ==
  \/ Tick
  \/ \E r \in Connections :
       \/ Start(r)
       \/ Respond(r)
       \/ SyncUpsertRepository(r)
       \/ SyncSelectLanguage(r)
       \/ SyncWriteLanguage(r)
       \/ SyncGetRepositoryCommits(r)
       \/ SyncUpsertCommit(r)
       \/ CalculateGetUserRepositories(r)
       \/ CalculateGetUserCommits(r)
       \/ CalculateGetUserLanguages(r)
       \/ CalculateUpsertUserMetrics(r)
       \/ CommitPatterns(r)
       \/ NewLanguages(r)
       \/ TopLanguages(r)
       \/ GenerateGetUserMetrics(r)
       \/ GenerateGetUserLanguages(r)
       \/ GenerateGetUserCommits(r)
       \/ GenerateStoreAIInsights(r)

SpecServer == InitServer /\ [][NextServer]_vars

(***************************************************************************)
(* Properties                                                              *)
(***************************************************************************)
\* Function f has been called: result, passed and now are those of its
\* latest call.
Called(f) == target = f /\ ncalls > 0

IsFinite(x) == x.kind = "finite"

\* C1: identifyGrowthLanguages leaves the caller's collection unchanged:
\* after the call the array holds the entries that were passed in, in the
\* same order.
C1_CallerCollectionUnchanged ==
  Called("identifyGrowthLanguages") => languages = passed

\* The place entry j of the passed array takes in the ranking: after every
\* entry with a larger commitCount, and after the earlier entries with the
\* same commitCount.
RankOf(j) ==
  1 + Cardinality({i \in 1..Len(passed) : passed[i].commitCount > passed[j].commitCount})
    + Cardinality({i \in 1..(j - 1) : passed[i].commitCount = passed[j].commitCount})

\* C2: identifyGrowthLanguages(languages, N), N >= 0, returns the first
\* min(N, |languages|) entries of the input ordered by commitCount
\* descending, entries of equal commitCount in their original order; for
\* [{TypeScript,150},{Python,75},{JavaScript,30}] and N = 2 that is
\* TypeScript, then Python.
C2_TopNByCommitCountStable ==
  (Called("identifyGrowthLanguages") /\ topN >= 0) =>
    /\ Len(result) = Min(topN, Len(passed))
    /\ \A j \in 1..Len(passed) :
         RankOf(j) <= Len(result) =>
           /\ result[RankOf(j)].language = passed[j].language
           /\ result[RankOf(j)].commitCount = passed[j].commitCount
    /\ ( /\ Len(passed) = 3
         /\ passed[1].language = "TypeScript" /\ passed[1].commitCount = 150
         /\ passed[2].language = "Python" /\ passed[2].commitCount = 75
         /\ passed[3].language = "JavaScript" /\ passed[3].commitCount = 30
         /\ topN = 2 )
       => ( /\ Len(result) = 2
            /\ result[1].language = "TypeScript"
            /\ result[2].language = "Python" )

\* A ranking that has to reorder, keep a tie in order and cut: Python (75),
\* TypeScript (150), JavaScript (75) with N = 2 gives TypeScript, Python.
C2_Witness ==
  /\ Called("identifyGrowthLanguages")
  /\ topN = 2
  /\ Len(passed) = 3
  /\ passed[1].language = "Python" /\ passed[1].commitCount = 75
  /\ passed[2].language = "TypeScript" /\ passed[2].commitCount = 150
  /\ passed[3].language = "JavaScript" /\ passed[3].commitCount = 75
  /\ Len(result) = 2
  /\ result[1].language = "TypeScript"
  /\ result[2].language = "Python"

\* C3: identifyNewLanguages returns only languages whose firstSeenAt lies in
\* the closed interval [now - windowDays, now]: every returned name is that
\* of an entry first seen neither before the cutoff nor after now.
C3_OnlyWithinWindow ==
  Called("identifyNewLanguages") =>
    \A i \in 1..Len(result) :
      \E j \in 1..Len(passed) :
        /\ passed[j].language = result[i]
        /\ passed[j].firstSeenAt >= now - windowOrDefault(timeWindowDays) * TicksPerDay
        /\ passed[j].firstSeenAt <= now

\* C4: on empty input every engine function returns its documented default,
\* and no call divides by zero: every number returned is finite, also for
\* repositories or languages together with no commits.
C4_EmptyInputDefaults ==
  /\ (Called("calculateConsistencyScore") /\ commits = <<>>) => result = Number(0)
  /\ (Called("calculateLearningVelocity") /\ commits = <<>>) => result = Number(0)
  /\ (Called("calculateProjectDepth") /\ repositories = <<>>) => result = Number(0)
  /\ (Called("calculateDepthBreadthRatio") /\ (repositories = <<>> \/ passed = <<>>))
       => result = Number(0)
  /\ (Called("calculateSkillGrowthTrend") /\ (passed = <<>> \/ commits = <<>>))
       => result = Number(0)
  /\ (Called("analyzeCommitPatterns") /\ commits = <<>>) =>
       /\ result.averageCommitsPerDay = Number(0)
       /\ result.peakDay = "Monday"
       /\ result.burstyPattern = FALSE
       /\ result.consistentPattern = FALSE
  /\ (Called("identifyNewLanguages") /\ passed = <<>>) => result = <<>>
  /\ (Called("identifyGrowthLanguages") /\ passed = <<>>) => result = <<>>
  /\ ( \/ Called("calculateConsistencyScore") \/ Called("calculateLearningVelocity")
       \/ Called("calculateProjectDepth") \/ Called("calculateDepthBreadthRatio")
       \/ Called("calculateSkillGrowthTrend") ) => IsFinite(result)
  /\ Called("analyzeCommitPatterns") => IsFinite(result.averageCommitsPerDay)

\* analyzeCommitPatterns([]) has returned the default record.
C4_Witness ==
  /\ Called("analyzeCommitPatterns")
  /\ commits = <<>>
  /\ result.peakDay = "Monday"
  /\ result.averageCommitsPerDay = Number(0)

\* C5: for every non-empty commit list calculateConsistencyScore returns an
\* integer in 0..100.
C5_ConsistencyScoreRange ==
  (Called("calculateConsistencyScore") /\ commits # <<>>) =>
    /\ IsFinite(result)
    /\ result.value % 100 = 0
    /\ result.value >= 0
    /\ result.value <= 100 * 100

\* A list whose coefficient of variation exceeds 2, where the clamp acts:
\* the score is 0.
C5_Witness ==
  /\ Called("calculateConsistencyScore")
  /\ commits = BurstCommits
  /\ result = Number(0)

\* How many commits of the list fall on the UTC day of its i-th commit.
CommitsOnDayOf(i) ==
  Cardinality({j \in 1..Len(commits) :
                 commits[j].committedAt \div TicksPerDay
                   = commits[i].committedAt \div TicksPerDay})

\* C6: calculateConsistencyScore returns exactly 100 whenever every active
\* UTC calendar day carries the same number of commits (all commits on one
\* UTC day; one commit on each of several days).
C6_EqualDaysScore100 ==
  ( /\ Called("calculateConsistencyScore")
    /\ commits # <<>>
    /\ \A i, j \in 1..Len(commits) : CommitsOnDayOf(i) = CommitsOnDayOf(j) )
  => result = Number(100 * 100)

\* Commits at different instants of one UTC day score 100.
C6_Witness ==
  /\ Called("calculateConsistencyScore")
  /\ Len(commits) = 3
  /\ \A i \in 1..3 : commits[i].committedAt \div TicksPerDay = 0
  /\ \E i, j \in 1..3 : commits[i].committedAt # commits[j].committedAt
  /\ result = Number(100 * 100)

\* C7: calculateLearningVelocity returns the raw commit count whenever all
\* commits share one timestamp (a single commit included), for every
\* non-empty list.
C7_SameInstantVelocityIsCount ==
  ( /\ Called("calculateLearningVelocity")
    /\ commits # <<>>
    /\ \A i, j \in 1..Len(commits) : commits[i].committedAt = commits[j].committedAt )
  => result = Number(100 * Len(commits))

\* Several commits at one instant: the velocity is their number.
C7_Witness ==
  /\ Called("calculateLearningVelocity")
  /\ Len(commits) = MaxCommits
  /\ \A i \in 1..Len(commits) : commits[i].committedAt = commits[1].committedAt
  /\ result = Number(100 * MaxCommits)

\* C8: for every repository list and commit list calculateProjectDepth
\* returns an integer in 0..100.
C8_ProjectDepthRange ==
  Called("calculateProjectDepth") =>
    /\ IsFinite(result)
    /\ result.value % 100 = 0
    /\ result.value >= 0
    /\ result.value <= 100 * 100

\* Repositories above 1000 KB on average with 20 commits each: both scores
\* are capped and the depth is 100.
C8_Witness ==
  /\ Called("calculateProjectDepth")
  /\ repositories # <<>>
  /\ \A i \in 1..Len(repositories) : repositories[i].size > 1000
  /\ Len(commits) >= 20 * Len(repositories)
  /\ result = Number(100 * 100)

\* C9: calculateDepthBreadthRatio returns 0 whenever the repositories or the
\* languages are empty, whatever the commits, and a value >= 0 always.
C9_RatioZeroOnEmptyAndNonNegative ==
  Called("calculateDepthBreadthRatio") =>
    /\ IsFinite(result)
    /\ result.value >= 0
    /\ (repositories = <<>> \/ passed = <<>>) => result = Number(0)

\* Repositories and commits, but no language: the ratio is 0.
C9_Witness ==
  /\ Called("calculateDepthBreadthRatio")
  /\ repositories # <<>>
  /\ commits # <<>>
  /\ passed = <<>>
  /\ result = Number(0)

\* C10: the engine is deterministic given its inputs: a second invocation
\* with the same argument collections and window returns what the first
\* returned, whenever it executes. (identifyGrowthLanguages is left out: its
\* first call reorders the array that the second call is given.)
C10_SameArgumentsSameResult ==
  (ncalls >= 2 /\ target # "identifyGrowthLanguages") => result = previous

\* C11: analyzeCommitPatterns never reports burstyPattern and
\* consistentPattern both true, whatever the commit list; both may be false.
C11_NeverBurstyAndConsistent ==
  Called("analyzeCommitPatterns") =>
    ~(result.burstyPattern /\ result.consistentPattern)

\* A non-empty list for which both flags are false (the Mixed label).
C11_Witness ==
  /\ Called("analyzeCommitPatterns")
  /\ Len(commits) > 0
  /\ ~result.burstyPattern
  /\ ~result.consistentPattern

\* C12: calculateMetrics is the composition of the standalone functions on
\* the same arguments: each of the five metrics equals what its function
\* returns (the trend over the default window of 90 days, at the same
\* clock reading), and the three totals are the sizes of the collections.
C12_MetricsAreComposition ==
  Called("calculateMetrics") =>
    /\ result.consistencyScore = calculateConsistencyScore(commits)
    /\ result.skillGrowthTrend =
         calculateSkillGrowthTrend(passed, commits, DefaultTimeWindowDays, now)
    /\ result.learningVelocity = calculateLearningVelocity(commits)
    /\ result.projectDepth = calculateProjectDepth(repositories, commits)
    /\ result.depthBreadthRatio =
         calculateDepthBreadthRatio(repositories, commits, passed)
    /\ result.totalCommits = Len(commits)
    /\ result.totalRepositories = Len(repositories)
    /\ result.uniqueLanguages = Len(passed)

\* A call on non-empty collections whose commits lie on both sides of the
\* default cutoff, so that the window decides the trend.
C12_Witness ==
  /\ Called("calculateMetrics")
  /\ Len(repositories) > 0
  /\ Len(passed) > 0
  /\ \E i, j \in DOMAIN commits :
       /\ commits[i].committedAt < cutoffDate(now, DefaultTimeWindowDays)
       /\ commits[j].committedAt >= cutoffDate(now, DefaultTimeWindowDays)
  /\ result.skillGrowthTrend = Number(5000)

(***************************************************************************)
(* Properties of the server                                                *)
(***************************************************************************)
\* The request has run its engine function: what the function returned is
\* what it returns on the arrays the request holds (and, for the functions
\* that read the clock, at the instant the request called it).
OwnResult(req) ==
  CASE req.procedure = "analytics.calculate" /\ req.pc \in {"upsertUserMetrics", "done"} ->
         req.result = calculateMetrics(req.repositories, req.commits, req.languages,
                                       req.stamp)
    [] req.procedure = "analytics.commitPatterns" /\ req.pc = "done" ->
         req.result = analyzeCommitPatterns(req.commits, tz)
    [] req.procedure = "analytics.newLanguages" /\ req.pc = "done" ->
         req.result = identifyNewLanguages(req.languages, NewLanguagesWindowDays,
                                           req.stamp)
    [] req.procedure = "analytics.topLanguages" /\ req.pc = "done" ->
         req.result = identifyGrowthLanguages(req.languages, TopLanguagesN)
    [] req.procedure = "insights.generate" /\ req.pc \in {"storeAIInsights", "done"} ->
         req.result = analyzeCommitPatterns(req.commits, tz)
    [] OTHER -> TRUE

\* C13: engine calls made by requests that run side by side do not touch
\* each other. A step of one request changes nothing that another request
\* holds (its arrays, its result), and the result a call leaves is the one
\* the function gives on the caller's own arguments.
C13_ConcurrentCallsAreIsolated ==
  [][\A r \in Connections :
       requests'[r] # requests[r] =>
         /\ \A q \in Connections \ {r} : requests'[q] = requests[q]
         /\ OwnResult(requests'[r])]_vars

\* Two requests side by side, each with the result of an engine call on
\* rows it read: calculate waits for upsertUserMetrics while topLanguages
\* returns.
C13_Witness ==
  \E r, q \in Connections :
    /\ r # q
    /\ requests[r].procedure = "analytics.calculate"
    /\ requests[r].pc = "upsertUserMetrics"
    /\ requests[r].result.totalCommits > 0
    /\ requests[q].procedure = "analytics.topLanguages"
    /\ requests[q].pc = "done"
    /\ Len(requests[q].result) > 0

\* C14: the languageProficiency table holds at most one row per
\* (user, language), whatever syncs have run and however they interleaved.
C14_OneRowPerUserLanguage ==
  \A m, n \in DOMAIN languageRows :
    (languageRows[m].userId = languageRows[n].userId
     /\ languageRows[m].language = languageRows[n].language) => m = n

\* C15: the commits table holds at most one row per (repository,
\* commitHash): a sync of a commit that is stored adds no row.
C15_OneRowPerRepositoryCommit ==
  \A m, n \in DOMAIN commitRows :
    (commitRows[m].repositoryId = commitRows[n].repositoryId
     /\ commitRows[m].commitHash = commitRows[n].commitHash) => m = n

\* The request holds the commits getUserCommits returned for the cutoff it
\* computed at req.stamp.
HoldsCommits(req) ==
  \/ req.procedure = "analytics.calculate" /\ req.pc = "getUserLanguages"
  \/ req.procedure = "analytics.commitPatterns" /\ req.pc = "done"
  \/ req.procedure = "insights.generate" /\ req.pc = "done" /\ req.llm # "json"

\* Every row a request holds is a row of the request's user.
OnlyOwnRows ==
  \A r \in Connections :
    LET req == requests[r]
    IN /\ \A k \in DOMAIN req.repositories : req.repositories[k].userId = req.user
       /\ \A k \in DOMAIN req.commits : req.commits[k].userId = req.user
       /\ \A k \in DOMAIN req.languages : req.languages[k].userId = req.user

\* No commit a request holds is dated more than 365 days before the request.
NotBeforeCutoff ==
  \A r \in Connections :
    LET req == requests[r]
    IN HoldsCommits(req) =>
         \A k \in DOMAIN req.commits :
           req.commits[k].committedAt >= cutoffDate(req.stamp, DefaultCommitDays)

\* C16: what the analytics procedures hand to the engine for user U are rows
\* of U only, and the commits are dated within the 365 days that end at the
\* request.
C16_OwnRowsOfTrailingYear ==
  /\ OnlyOwnRows
  /\ NotBeforeCutoff
  /\ \A r \in Connections :
       LET req == requests[r]
       IN HoldsCommits(req) =>
            \A k \in DOMAIN req.commits : req.commits[k].committedAt <= req.stamp

\* The list with an inactive day put after every day: a commit of day d
\* moves to day 2 d and keeps its time of day.
Gapped(cs) ==
  [i \in DOMAIN cs |->
     Commit(2 * TicksPerDay * (cs[i].committedAt \div TicksPerDay)
              + (cs[i].committedAt % TicksPerDay))]

\* C17: for a non-empty commit list calculateConsistencyScore is
\* round(clamp(100 - 50 * stdDev / mean, 0, 100)) for the mean and the
\* population standard deviation of the commit counts of the UTC dates that
\* have a commit; a date without commits has no bucket, so the score is the
\* same after inactive days are put between the active ones. With k active
\* dates, n commits and D = k * (sum of squared counts) - n^2 the quotient
\* stdDev / mean is sqrt(D) / n: the score is 0 when D > 4 n^2, and else the
\* integer v with v - 1/2 <= 100 - 50 sqrt(D) / n < v + 1/2.
C17_ConsistencyScoreFormula ==
  (Called("calculateConsistencyScore") /\ commits # <<>>) =>
    LET n == Len(commits)
        k == Cardinality({commits[i].committedAt \div TicksPerDay : i \in 1..n})
        SumSq[i \in 0..n] == IF i = 0 THEN 0 ELSE SumSq[i - 1] + CommitsOnDayOf(i)
        D == k * SumSq[n] - n * n
        v == result.value \div 100
        Sq(x) == x * x
    IN /\ IsFinite(result)
       /\ result.value = 100 * v
       /\ IF D > 4 * n * n THEN v = 0
          ELSE /\ v \in 0..100
               /\ 10000 * D <= Sq((201 - 2 * v) * n)
               /\ v < 100 => 10000 * D > Sq((199 - 2 * v) * n)
       /\ calculateConsistencyScore(Gapped(commits)) = result

\* Two commits on one day, none on the next, one on the day after: counts
\* 2 and 1 give 100 - 50 / 3, which rounds to 83 (with a bucket of 0 for the
\* idle day it would be 59).
C17_Witness ==
  /\ Called("calculateConsistencyScore")
  /\ Len(commits) = 3
  /\ commits[1].committedAt \div TicksPerDay = 0
  /\ commits[2].committedAt \div TicksPerDay = 0
  /\ commits[3].committedAt \div TicksPerDay = 2
  /\ result = Number(100 * 83)

Reversed(cs) == [i \in DOMAIN cs |-> cs[Len(cs) + 1 - i]]

\* C18: when the commits do not all share one timestamp,
\* calculateLearningVelocity is commitCount / daysDiff rounded to two
\* decimals, where daysDiff = (latest - earliest) / one day is a fraction of
\* days and is not rounded; the result is never negative and is the same for
\* the commits in another order (2 commits 10 days apart give 0.2). In
\* hundredths h: h - 1/2 <= 100 n / daysDiff < h + 1/2.
C18_VelocityIsCountPerFractionalDay ==
  ( /\ Called("calculateLearningVelocity")
    /\ \E i, j \in 1..Len(commits) : commits[i].committedAt # commits[j].committedAt )
  => LET n == Len(commits)
         latest == CHOOSE i \in 1..n :
                     \A j \in 1..n : commits[j].committedAt <= commits[i].committedAt
         earliest == CHOOSE i \in 1..n :
                       \A j \in 1..n : commits[j].committedAt >= commits[i].committedAt
         ticks == commits[latest].committedAt - commits[earliest].committedAt
         h == result.value
     IN /\ IsFinite(result)
        /\ h >= 0
        /\ (2 * h - 1) * ticks <= 200 * n * TicksPerDay
        /\ 200 * n * TicksPerDay < (2 * h + 1) * ticks
        /\ calculateLearningVelocity(Reversed(commits)) = result
        /\ commits = TenDaysApart => result = Number(20)

\* Two commits whose distance is more than one day and less than two: the
\* velocity lies strictly between 1 and 2 commits per day (over whole days
\* it would be 2).
C18_Witness ==
  /\ Called("calculateLearningVelocity")
  /\ Len(commits) = 2
  /\ commits[2].committedAt - commits[1].committedAt > TicksPerDay
  /\ commits[2].committedAt - commits[1].committedAt < 2 * TicksPerDay
  /\ IsFinite(result)
  /\ result.value > 100
  /\ result.value < 200

\* The depth is round(0.4 * min(100, avgSize / 1000 * 100)
\* + 0.6 * min(100, (commitCount / repositoryCount) * 5)): for r repositories
\* of total size S and c commits the weighted sum is
\* (4 min(1000 r, S) + 6 min(1000 r, 50 c)) / (100 r), and the result is the
\* integer v with v - 1/2 <= sum < v + 1/2.
DepthIsRoundedWeightedSum ==
  LET r == Len(repositories)
      c == Len(commits)
      Size[i \in 0..r] == IF i = 0 THEN 0 ELSE Size[i - 1] + repositories[i].size
      sum100r == 4 * (IF Size[r] < 1000 * r THEN Size[r] ELSE 1000 * r)
                   + 6 * (IF 50 * c < 1000 * r THEN 50 * c ELSE 1000 * r)
      v == result.value \div 100
  IN /\ IsFinite(result)
     /\ result.value = 100 * v
     /\ (2 * v - 1) * 100 * r <= 2 * sum100r
     /\ 2 * sum100r < (2 * v + 1) * 100 * r

\* The repositories are saturated: average size >= 1000 KB and at least 20
\* commits per repository.
DepthSaturated ==
  LET r == Len(repositories)
      Size[i \in 0..r] == IF i = 0 THEN 0 ELSE Size[i - 1] + repositories[i].size
  IN Size[r] >= 1000 * r /\ Len(commits) >= 20 * r

\* No list of as many repositories with a larger average size, and no longer
\* commit list, has a smaller depth.
DepthIsMonotone ==
  /\ \A other \in RepositoryLists :
       (Len(other) = Len(repositories) /\ totalSize(other) >= totalSize(repositories))
         => calculateProjectDepth(other, commits).value >= result.value
  /\ \A more \in CommitCountLists :
       Len(more) >= Len(commits)
         => calculateProjectDepth(repositories, more).value >= result.value

\* C19 as stated: for a non-empty repository list calculateProjectDepth is
\* the rounded weighted sum, it is 100 exactly when the average size is
\* >= 1000 and there are at least 20 commits per repository, and it is
\* non-decreasing in the average size and in the commit count.
C19_DepthIs100ExactlyWhenSaturated ==
  (Called("calculateProjectDepth") /\ repositories # <<>>) =>
    /\ DepthIsRoundedWeightedSum
    /\ (result = Number(100 * 100)) <=> DepthSaturated
    /\ DepthIsMonotone

\* C19, amended: for a non-empty repository list calculateProjectDepth is
\* the rounded weighted sum, it is 100 whenever the average size is >= 1000
\* and there are at least 20 commits per repository (and also when the
\* weighted sum is 99.5 or more without that), and it is non-decreasing in
\* the average size and in the commit count.
C19_ProjectDepthFormula ==
  (Called("calculateProjectDepth") /\ repositories # <<>>) =>
    /\ DepthIsRoundedWeightedSum
    /\ DepthSaturated => result = Number(100 * 100)
    /\ DepthIsMonotone

\* Repositories of 990 KB with 20 commits each or more:
\* 0.4 * 99 + 0.6 * 100 = 99.6, which rounds to 100 although the average
\* size is below 1000.
C19_Witness ==
  /\ Called("calculateProjectDepth")
  /\ repositories # <<>>
  /\ \A i \in 1..Len(repositories) : repositories[i].size = 990
  /\ Len(commits) >= 20 * Len(repositories)
  /\ ~DepthSaturated
  /\ result = Number(100 * 100)

\* The collection holds one row per language.
OneRowPerLanguage ==
  \A i, j \in 1..Len(languages) :
    languages[i].language = languages[j].language => i = j

\* C20: when the repositories and the languages are both non-empty and the
\* collection holds one row per language, calculateDepthBreadthRatio is
\* (commitCount / repositoryCount) / breadth rounded to two decimals, where
\* breadth is the number of distinct languages. In hundredths h, for c
\* commits, r repositories and b distinct languages:
\* h - 1/2 <= 100 c / (r b) < h + 1/2.
C20_RatioIsDepthOverDistinctLanguages ==
  ( /\ Called("calculateDepthBreadthRatio")
    /\ repositories # <<>>
    /\ languages # <<>>
    /\ OneRowPerLanguage )
  => LET c == Len(commits)
         r == Len(repositories)
         b == Cardinality({languages[i].language : i \in 1..Len(languages)})
         h == result.value
     IN /\ IsFinite(result)
        /\ (2 * h - 1) * r * b <= 200 * c
        /\ 200 * c < (2 * h + 1) * r * b

\* Three commits, two repositories and two languages: (3 / 2) / 2 = 0.75.
C20_Witness ==
  /\ Called("calculateDepthBreadthRatio")
  /\ Len(commits) = 3
  /\ Len(repositories) = 2
  /\ Len(languages) = 2
  /\ OneRowPerLanguage
  /\ result = Number(75)

\* How many of the caller's commits are dated at or after the instant
\* `days` days before the instant the latest call ran.
RecentCount(days) ==
  Cardinality({i \in 1..Len(commits) :
                 commits[i].committedAt >= now - days * TicksPerDay})

\* The trend of the caller's collections over a window of `days` days: 0
\* when there is no language or no recent commit, else the integer nearest to
\* recent / total * 100 (a half goes up), which is at most 100.
IsTrendOver(trend, days) ==
  LET recent == RecentCount(days)
      total == Len(commits)
      v == trend.value \div 100
  IN /\ IsFinite(trend)
     /\ trend.value = 100 * v
     /\ v \in 0..100
     /\ IF languages = <<>> \/ recent = 0 THEN v = 0
        ELSE /\ (2 * v - 1) * total <= 200 * recent
             /\ 200 * recent < (2 * v + 1) * total

\* C21: calculateSkillGrowthTrend returns 0 when the languages are empty or
\* no commit is dated at or after now - windowDays (the cutoff itself
\* counts), and otherwise round(min(100, recent / totalCommits * 100)) for
\* the number of commits at or after the cutoff; the result is an integer in
\* 0..100; without a window argument, as calculateMetrics calls it, the
\* window is 90 days.
C21_TrendIsRecentShare ==
  /\ Called("calculateSkillGrowthTrend") => IsTrendOver(result, timeWindowDays)
  /\ Called("calculateMetrics") => IsTrendOver(result.skillGrowthTrend, 90)

\* A window of one day, one commit exactly at the cutoff and one before
\* it: the commit at the cutoff counts, and the trend is 50.
C21_Witness ==
  /\ Called("calculateSkillGrowthTrend")
  /\ languages # <<>>
  /\ timeWindowDays = 1
  /\ Len(commits) = 2
  /\ \E i, j \in 1..2 :
       /\ commits[i].committedAt = now - TicksPerDay
       /\ commits[j].committedAt < now - TicksPerDay
  /\ result = Number(100 * 50)

\* The weekday (0 = Sunday .. 6 = Saturday) of the caller's i-th commit in
\* the zone of the process.
WeekdayOf(i) == (EpochWeekday + ((commits[i].committedAt + tz) \div TicksPerDay)) % 7

\* How many of the caller's commits fall on weekday d.
CommitsOnWeekday(d) == Cardinality({i \in 1..Len(commits) : WeekdayOf(i) = d})

WeekdayNames ==
  [d \in 0..6 |->
     CASE d = 0 -> "Sunday" [] d = 1 -> "Monday" [] d = 2 -> "Tuesday"
       [] d = 3 -> "Wednesday" [] d = 4 -> "Thursday" [] d = 5 -> "Friday"
       [] d = 6 -> "Saturday"]

\* C22: for a non-empty commit list the peakDay of analyzeCommitPatterns is
\* the name of a weekday that occurs and has the largest commit count, of
\* several such weekdays the one with the lowest index (0 = Sunday), and it
\* is the same for the commits in the opposite order.
C22_PeakDayIsLowestMaximum ==
  (Called("analyzeCommitPatterns") /\ commits # <<>>) =>
    /\ \E d \in 0..6 :
         /\ result.peakDay = WeekdayNames[d]
         /\ CommitsOnWeekday(d) > 0
         /\ \A e \in 0..6 : CommitsOnWeekday(e) <= CommitsOnWeekday(d)
         /\ \A e \in 0..6 : CommitsOnWeekday(e) = CommitsOnWeekday(d) => d <= e
    /\ analyzeCommitPatterns(Reversed(commits), tz).peakDay = result.peakDay

\* Two commits, the first on a later weekday than the second: the buckets
\* tie and the peak is the weekday of the second commit, the lower index,
\* although its bucket was made last.
C22_Witness ==
  /\ Called("analyzeCommitPatterns")
  /\ Len(commits) = 2
  /\ WeekdayOf(1) > WeekdayOf(2)
  /\ result.peakDay = WeekdayNames[WeekdayOf(2)]

\* k * (sum of the squared counts of the weekdays that occur) - n^2 for the
\* k weekdays and the n commits of the caller: with mean = n / k the
\* population variance is WeekdaySpread / k^2.
WeekdaySpread ==
  LET n == Len(commits)
      k == Cardinality({WeekdayOf(i) : i \in 1..n})
      SumSq[i \in 0..n] ==
        IF i = 0 THEN 0 ELSE SumSq[i - 1] + CommitsOnWeekday(WeekdayOf(i))
  IN k * SumSq[n] - n * n

C24_AverageIsCountOverSeven ==
  Called("analyzeCommitPatterns") =>
    LET n == Len(commits)
        h == result.averageCommitsPerDay.value
    IN /\ IsFinite(result.averageCommitsPerDay)
       /\ (2 * h - 1) * 7 <= 200 * n
       /\ 200 * n < (2 * h + 1) * 7
       /\ n = 10 => h = 143

\* Three commits on three different days: 3 / 7 = 0.43, not 3 / 3.
C24_Witness ==
  /\ Called("analyzeCommitPatterns")
  /\ Len(commits) = 3
  /\ \A i, j \in 1..3 : i # j => WeekdayOf(i) # WeekdayOf(j)
  /\ result.averageCommitsPerDay = Number(43)

\* C25: every entry identifyGrowthLanguages returns carries growth = "High"
\* if its commitCount > 100, "Medium" if 50 < commitCount <= 100 and "Low" if
\* commitCount <= 50 (100 is Medium, 50 is Low), and its language and
\* commitCount are those of an entry that was passed in.
C25_GrowthTiers ==
  Called("identifyGrowthLanguages") =>
    \A i \in 1..Len(result) :
      /\ DOMAIN result[i] = {"language", "commitCount", "growth"}
      /\ \E j \in 1..Len(passed) :
           /\ passed[j].language = result[i].language
           /\ passed[j].commitCount = result[i].commitCount
      /\ result[i].commitCount > 100 => result[i].growth = "High"
      /\ (result[i].commitCount > 50 /\ result[i].commitCount <= 100)
           => result[i].growth = "Medium"
      /\ result[i].commitCount <= 50 => result[i].growth = "Low"

\* Entries of exactly 100 and exactly 50 commits come back as Medium and
\* Low.
C25_Witness ==
  /\ Called("identifyGrowthLanguages")
  /\ Len(result) = 2
  /\ result[1].commitCount = 100 /\ result[1].growth = "Medium"
  /\ result[2].commitCount = 50 /\ result[2].growth = "Low"

\* The entries that were passed in and were first seen at or after the
\* cutoff of the latest call, by position; the window is 90 days when the
\* caller passed none.
KeptPositions ==
  LET days == IF timeWindowDays = Omitted THEN 90 ELSE timeWindowDays
  IN {j \in 1..Len(passed) : passed[j].firstSeenAt >= now - days * TicksPerDay}

FirstSeenAtIsKept ==
  [][/\ Len(languageRows') >= Len(languageRows)
     /\ \A k \in 1..Len(languageRows) :
          /\ languageRows'[k].id = languageRows[k].id
          /\ languageRows'[k].userId = languageRows[k].userId
          /\ languageRows'[k].language = languageRows[k].language
          /\ languageRows'[k].firstSeenAt = languageRows[k].firstSeenAt]_vars

\* C27: in every reachable state of the languageProficiency table each row
\* satisfies firstSeenAt <= lastSeenAt. (The rest of the claim, that a later
\* sync leaves the firstSeenAt of a row as it is and writes only
\* commitCount, repositoryCount, lastSeenAt and updatedAt, is
\* FirstSeenAtIsKept.)
C27_FirstSeenNotAfterLastSeen ==
  \A k \in 1..Len(languageRows) :
    languageRows[k].firstSeenAt <= languageRows[k].lastSeenAt

\* A calculate that has just returned its snapshot (or thrown).
Calculated(req) == req.procedure = "analytics.calculate" /\ req.pc = "done"

\* C28: each user has at most one row of userMetrics; when an
\* analytics.calculate of user U returns successfully the row of U holds the
\* snapshot the call returns, computed from the repositories, commits and
\* languages of U the call read, with the lastCalculatedAt of its write, in
\* place of any earlier snapshot; when a calculate fails the table is as it
\* was.
C28_OneMetricsRowHoldsLatestSnapshot ==
  /\ [](/\ \A i, j \in 1..Len(metricsRows) :
            metricsRows[i].userId = metricsRows[j].userId => i = j
        /\ \A r \in Connections :
             (Calculated(requests[r]) /\ requests[r].error = "") =>
               LET req == requests[r]
               IN /\ req.result =
                       calculateMetrics(req.repositories, req.commits, req.languages,
                                        req.stamp)
                  /\ \A k \in 1..Len(req.repositories) :
                       req.repositories[k].userId = req.user
                  /\ \A k \in 1..Len(req.commits) : req.commits[k].userId = req.user
                  /\ \A k \in 1..Len(req.languages) :
                       req.languages[k].userId = req.user
                  /\ \E k \in 1..Len(metricsRows) :
                       /\ metricsRows[k].userId = req.user
                       /\ metricsRows[k].metrics = req.result
                       /\ metricsRows[k].lastCalculatedAt = req.stamp)
  /\ [][\A r \in Connections :
          ( /\ ~Calculated(requests[r])
            /\ Calculated(requests'[r])
            /\ requests'[r].error # "" )
          => metricsRows' = metricsRows]_vars

\* A calculate of the seeded user has returned: the one row of the user,
\* which held the snapshot of an empty account, holds the new snapshot.
C28_Witness ==
  /\ Len(metricsRows) = 1
  /\ metricsRows[1].metrics.totalCommits > 0
  /\ metricsRows[1] # SeedMetrics[1]
  /\ \E r \in Connections :
       /\ Calculated(requests[r])
       /\ requests[r].error = ""
       /\ requests[r].user = metricsRows[1].userId
       /\ requests[r].result = metricsRows[1].metrics

\* The latest request for commits a sync has made names the repository it
\* was made for: the owner and the name of that repository of the user.
AsksForTheRepository ==
  \A r \in Connections :
    (requests[r].procedure = "github.sync" /\ requests[r].asked # <<>>) =>
      \E k \in DOMAIN GitHubRepositories(requests[r].user) :
        LET repo == GitHubRepositories(requests[r].user)[k]
        IN /\ requests[r].asked[1] = repo.id
           /\ requests[r].asked[2] = repo.full_name[1]
           /\ requests[r].asked[3] = repo.full_name[2]

\* The commits a sync is storing go to a repository row of the user with
\* the githubRepoId of the repository they were returned for.
StoredAgainstMatchingRow ==
  \A r \in Connections :
    (requests[r].procedure = "github.sync" /\ requests[r].pc = "upsertCommits") =>
      \E k \in 1..Len(repositoryRows) :
        /\ repositoryRows[k].id = requests[r].matchingRepo.id
        /\ repositoryRows[k].userId = requests[r].user
        /\ repositoryRows[k].githubRepoId = requests[r].asked[1]

\* A sync does not end with an error, whatever the requests for commits
\* answered.
SyncIsNotAborted ==
  \A r \in Connections :
    requests[r].procedure = "github.sync" => requests[r].error = ""

\* C29: during github.sync the commits of every repository GitHub returned
\* are requested for that repository (its owner, or else the user's GitHub
\* username, and its name), every commit returned is stored against the
\* stored repository row with the same githubRepoId, and a request for
\* commits that fails gives an empty list and does not abort the sync.
C29_CommitsRequestedPerRepository ==
  /\ AsksForTheRepository
  /\ StoredAgainstMatchingRow
  /\ SyncIsNotAborted

\* An insights.generate that has read the four tables.
Generated(req) ==
  req.procedure = "insights.generate" /\ req.pc \in {"storeAIInsights", "done"}

\* C30: an insights.generate that finds no metrics row of its user fails
\* with "Failed to generate insights", the model is not asked and no
\* aiInsights row is stored; a row is stored only by a generate whose model
\* answered with content that parsed as JSON.
C30_NoInsightsWithoutMetrics ==
  /\ [](\A r \in Connections :
          (Generated(requests[r]) /\ requests[r].metrics = NoRow) =>
            /\ requests[r].pc = "done"
            /\ requests[r].error = "Failed to generate insights"
            /\ requests[r].llm = "")
  /\ [][insightRows' # insightRows =>
          \E r \in Connections :
            /\ requests[r].procedure = "insights.generate"
            /\ requests[r].pc = "storeAIInsights"
            /\ requests[r].metrics # NoRow
            /\ requests[r].llm = "json"
            /\ Len(insightRows') = Len(insightRows) + 1
            /\ SubSeq(insightRows', 1, Len(insightRows)) = insightRows
            /\ insightRows'[Len(insightRows')].userId = requests[r].user]_vars

\* A generate of a user without a metrics row has failed: the model was not
\* asked and the table of insights is empty.
C30_Witness ==
  \E r \in Connections :
    /\ Generated(requests[r])
    /\ getUserMetrics(metricsRows, requests[r].user) = NoRow
    /\ requests[r].metrics = NoRow
    /\ requests[r].error = "Failed to generate insights"
    /\ requests[r].llm = ""
    /\ insightRows = <<>>

====
